---- MODULE Spec2Model ----
(***************************************************************************)
(* Model of src/main.py: parse_owner_repo, resolve_og (GraphQL path, then  *)
(* HTML scrape) and download_with_retry (cache check, 429 retry loop, file *)
(* write).  Strings are sequences of one-character strings, so that        *)
(* parsing, sanitising and glob matching are computed character by         *)
(* character as the code does.                                             *)
(***************************************************************************)
EXTENDS Integers, Sequences, FiniteSets, TLC

VARIABLES
  parse_pc,      \* parse_owner_repo caller: "idle" | "done"
  parse_in,      \* the parts the input URL was built from, and repo_url itself
  parse_ret,     \* what parse_owner_repo returned or raised
  res_pc,        \* resolve_og: "idle" | "graphql" | "html" | "done"
  res_in,        \* resolve_og's argument repo_url and the GITHUB_TOKEN environment
  res_id,        \* owner, repo as parsed at line 59
  res_reqs,      \* the outbound requests resolve_og has issued, in order
  res_api,       \* the response the GraphQL POST got
  res_html,      \* the response the HTML GET got
  res_ret,       \* what resolve_og returned or raised
  dir,           \* DL_DIR: file name -> the bytes of the file
  fetch,         \* download_with_retry: per caller, its position and locals
  last,          \* the call of download_with_retry that finished last
  calls          \* how many calls of download_with_retry were started

parse_vars == <<parse_pc, parse_in, parse_ret>>

res_vars == <<res_pc, res_in, res_id, res_reqs, res_api, res_html, res_ret>>

fetch_vars == <<dir, fetch, last, calls>>

vars == <<parse_pc, parse_in, parse_ret,
          res_pc, res_in, res_id, res_reqs, res_api, res_html, res_ret,
          dir, fetch, last, calls>>

(***************************************************************************)
(* Strings.                                                                *)
(***************************************************************************)
EMPTY == <<>>

StartsWith(s, p) == Len(s) >= Len(p) /\ SubSeq(s, 1, Len(p)) = p

EndsWith(s, p) == Len(s) >= Len(p) /\ SubSeq(s, Len(s) - Len(p) + 1, Len(s)) = p

\* "needle in hay" on str
Contains(hay, needle) ==
  \E i \in 1..(Len(hay) - Len(needle) + 1) : SubSeq(hay, i, i + Len(needle) - 1) = needle

UPPER ==
  << "A", "B", "C", "D", "E", "F", "G", "H", "I", "J", "K", "L", "M",
     "N", "O", "P", "Q", "R", "S", "T", "U", "V", "W", "X", "Y", "Z" >>

LOWER ==
  << "a", "b", "c", "d", "e", "f", "g", "h", "i", "j", "k", "l", "m",
     "n", "o", "p", "q", "r", "s", "t", "u", "v", "w", "x", "y", "z" >>

\* str.lower() on one character
LowerChar(c) ==
  IF \E i \in 1..Len(UPPER) : UPPER[i] = c
  THEN LOWER[CHOOSE i \in 1..Len(UPPER) : UPPER[i] = c]
  ELSE c

\* str.lower()
Lower(s) == [i \in 1..Len(s) |-> LowerChar(s[i])]

\* index of the first character of s, at or after position i, that is in set
\* cs; Len(s) + 1 when there is none
RECURSIVE FindFrom(_, _, _)
FindFrom(s, i, cs) ==
  IF i > Len(s) THEN Len(s) + 1
  ELSE IF s[i] \in cs THEN i
  ELSE FindFrom(s, i + 1, cs)

\* str.split(sep) followed by the filter "if p": the non-empty pieces of s
RECURSIVE SplitNonEmpty(_, _)
SplitNonEmpty(s, sep) ==
  IF s = EMPTY THEN <<>>
  ELSE LET j == FindFrom(s, 1, {sep})
           head == SubSeq(s, 1, j - 1)
           rest == SubSeq(s, j + 1, Len(s))
       IN (IF head = EMPTY THEN <<>> ELSE <<head>>) \o SplitNonEmpty(rest, sep)

(***************************************************************************)
(* parse_owner_repo                                                        *)
(***************************************************************************)
HTTP_PREFIX == <<"h", "t", "t", "p", ":", "/", "/">>

HTTPS_PREFIX == <<"h", "t", "t", "p", "s", ":", "/", "/">>

GITHUB_COM == <<"g", "i", "t", "h", "u", "b", ".", "c", "o", "m">>

DOT_GIT == <<".", "g", "i", "t">>

\* urllib.parse.urlparse on a URL that starts with http:// or https:// :
\* netloc runs from after "//" to the first of "/", "?", "#"; path from there
\* to the first of "?", "#".
urlparse(u) ==
  LET start  == FindFrom(u, 1, {":"}) + 3
      nend   == FindFrom(u, start, {"/", "?", "#"})
      pend   == FindFrom(u, nend, {"?", "#"})
  IN [netloc |-> SubSeq(u, start, nend - 1), path |-> SubSeq(u, nend, pend - 1)]

\* the same without flags=re.I
StripDotGit_CaseSensitive(s) ==
  IF EndsWith(s, DOT_GIT) THEN SubSeq(s, 1, Len(s) - 4) ELSE s

\* re.sub(r"\.git$", "", s, flags=re.I)
StripDotGit(s) ==
  IF EndsWith(Lower(s), DOT_GIT) THEN SubSeq(s, 1, Len(s) - 4) ELSE s

\* the host test of line 28
IsGithubNetloc(netloc) == Contains(netloc, GITHUB_COM)

NO_ERROR == "none"

Returned(o, r) == [err |-> NO_ERROR, msg |-> "", owner |-> o, repo |-> r]

Raised(type, msg) == [err |-> type, msg |-> msg, owner |-> EMPTY, repo |-> EMPTY]

MSG_NOT_GITHUB == "URL must be a GitHub repository URL."

MSG_NO_OWNER_REPO == "Could not parse owner/repo from URL."

parse_owner_repo(repo_url) ==
  LET url    == IF ~(StartsWith(repo_url, HTTP_PREFIX) \/ StartsWith(repo_url, HTTPS_PREFIX))
                THEN HTTPS_PREFIX \o repo_url
                ELSE repo_url
      parsed == urlparse(url)
      parts  == SplitNonEmpty(parsed.path, "/")
  IN IF ~IsGithubNetloc(parsed.netloc) THEN Raised("ValueError", MSG_NOT_GITHUB)
     ELSE IF Len(parts) < 2 THEN Raised("ValueError", MSG_NO_OWNER_REPO)
     ELSE Returned(parts[1], StripDotGit(parts[2]))

(***************************************************************************)
(* Inputs of parse_owner_repo: scheme, host, path segments, .git suffix.   *)
(***************************************************************************)
Schemes == {EMPTY, HTTP_PREFIX, HTTPS_PREFIX}

Hosts ==
  { GITHUB_COM,
    <<"g", "i", "t", "l", "a", "b", ".", "c", "o", "m">>,
    <<"n", "o", "t">> \o GITHUB_COM,
    GITHUB_COM \o <<".", "e", "v", "i", "l", ".", "i", "o">>,
    <<"e", "x", ".", "o", "r", "g">> }

OwnerNames == { <<"o", "c", "t">>, <<"A", "-", "b">> }

RepoNames == { <<"r">>, <<"H", "i", "-", "W">>, <<"x", ".", "g", "i", "t">>, <<"g", "i", "t">> }

GitSuffixes == { EMPTY, DOT_GIT, <<".", "G", "I", "T">>, <<".", "G", "i", "t">> }

\* how the path is laid out around the segments
PathShapes == { "none", "slash", "owner", "owner/", "owner/repo", "owner/repo/",
                "/owner//repo", "owner/repo/tree" }

SLASH == <<"/">>

BuildPath(shape, o, r) ==
  CASE shape = "none"            -> EMPTY
    [] shape = "slash"           -> SLASH
    [] shape = "owner"           -> SLASH \o o
    [] shape = "owner/"          -> SLASH \o o \o SLASH
    [] shape = "owner/repo"      -> SLASH \o o \o SLASH \o r
    [] shape = "owner/repo/"     -> SLASH \o o \o SLASH \o r \o SLASH
    [] shape = "/owner//repo"    -> SLASH \o SLASH \o o \o SLASH \o SLASH \o r
    [] shape = "owner/repo/tree" -> SLASH \o o \o SLASH \o r \o SLASH \o <<"t", "r", "e", "e">>

\* number of non-empty path segments the shape puts in the URL
ShapeSegments(shape) ==
  CASE shape \in {"none", "slash"} -> 0
    [] shape \in {"owner", "owner/"} -> 1
    [] shape \in {"owner/repo", "owner/repo/", "/owner//repo"} -> 2
    [] shape = "owner/repo/tree" -> 3

NoInput == [scheme |-> EMPTY, host |-> EMPTY, shape |-> "none", owner |-> EMPTY,
            base |-> EMPTY, suffix |-> EMPTY, repo_url |-> EMPTY]

NoReturn == Raised("unset", "")

ParseIdle ==
  /\ parse_pc = "idle"
  /\ parse_in = NoInput
  /\ parse_ret = NoReturn

\* a caller passes a URL to parse_owner_repo and gets its result
ParseCall ==
  /\ parse_pc = "idle"
  /\ \E s \in Schemes, h \in Hosts, shape \in PathShapes, o \in OwnerNames,
        b \in RepoNames, sfx \in GitSuffixes :
       LET u == s \o h \o BuildPath(shape, o, b \o sfx)
       IN /\ parse_in' = [scheme |-> s, host |-> h, shape |-> shape, owner |-> o,
                          base |-> b, suffix |-> sfx, repo_url |-> u]
          /\ parse_ret' = parse_owner_repo(u)
  /\ parse_pc' = "done"
  /\ UNCHANGED <<res_vars, fetch_vars>>

ParseReset ==
  /\ parse_pc = "done"
  /\ parse_pc' = "idle"
  /\ parse_in' = NoInput
  /\ parse_ret' = NoReturn
  /\ UNCHANGED <<res_vars, fetch_vars>>

ParseNext == ParseCall \/ ParseReset

(***************************************************************************)
(* HTTP responses and JSON values.                                         *)
(***************************************************************************)
\* requests.Response.raise_for_status: HTTPError for 4xx and 5xx
RaisesForStatus(status) == status >= 400 /\ status < 600

JNull == [t |-> "null"]

JStr(s) == [t |-> "str", s |-> s]

JObj(f) == [t |-> "obj", f |-> f]

JEmptyObj == JObj(<<>>)

\* dict.get(key, default)
JGet(obj, key, default) == IF key \in DOMAIN obj.f THEN obj.f[key] ELSE default

\* "is not None" in place of truthiness
Truthy_IsNotNone(v) == v.t # "null"

\* Python truthiness of None, str, dict
Truthy(v) ==
  CASE v.t = "null" -> FALSE
    [] v.t = "str"  -> v.s # EMPTY
    [] v.t = "obj"  -> DOMAIN v.f # {}

Value(v) == [raised |-> NO_ERROR, value |-> v]

Exception(type) == [raised |-> type, value |-> JNull]

(***************************************************************************)
(* get_og_via_graphql                                                      *)
(***************************************************************************)
GITHUB_GRAPHQL ==
  HTTPS_PREFIX \o <<"a", "p", "i", ".">> \o GITHUB_COM \o <<"/", "g", "r", "a", "p", "h", "q", "l">>

\* the same lookup without the "data" level
OpenGraphImageUrlOf_NoDataLevel(json) ==
  IF json.t # "obj" THEN Exception("AttributeError")
  ELSE LET d3 == JGet(json, "repository", JEmptyObj)
       IN IF d3.t # "obj" THEN Exception("AttributeError")
          ELSE Value(JGet(d3, "openGraphImageUrl", JNull))

\* line 50: (r.json().get("data", {}) or {}).get("repository", {}).get("openGraphImageUrl")
OpenGraphImageUrlOf(json) ==
  IF json.t # "obj" THEN Exception("AttributeError")
  ELSE LET d1 == JGet(json, "data", JEmptyObj)
           d2 == IF Truthy(d1) THEN d1 ELSE JEmptyObj
       IN IF d2.t # "obj" THEN Exception("AttributeError")
          ELSE LET d3 == JGet(d2, "repository", JEmptyObj)
               IN IF d3.t # "obj" THEN Exception("AttributeError")
                  ELSE Value(JGet(d3, "openGraphImageUrl", JNull))

\* resp is what SESSION.post gave: an exception, or a response
get_og_via_graphql(resp) ==
  IF resp.exc THEN Exception("ConnectionError")
  ELSE IF RaisesForStatus(resp.status) THEN Exception("HTTPError")
  ELSE IF ~resp.json_ok THEN Exception("JSONDecodeError")
  ELSE OpenGraphImageUrlOf(resp.body)

(***************************************************************************)
(* get_og_from_html: the page text is a sequence of tags; the regular      *)
(* expression of line 55 matches inside one tag (no ">" is crossed): a     *)
(* meta tag whose property attribute is og:image in any letter case,       *)
(* followed by a content attribute with a non-empty value.                 *)
(***************************************************************************)
OG_IMAGE == <<"o", "g", ":", "i", "m", "a", "g", "e">>

TagMatches(tag) ==
  /\ tag.meta
  /\ Lower(tag.property) = OG_IMAGE
  /\ tag.content_after
  /\ tag.content # EMPTY

\* re.search: the first match in the text, or None
RECURSIVE SearchOgImage(_, _)
SearchOgImage(text, i) ==
  IF i > Len(text) THEN JNull
  ELSE IF TagMatches(text[i]) THEN JStr(text[i].content)
  ELSE SearchOgImage(text, i + 1)

\* resp is what SESSION.get gave: an exception, or a response
get_og_from_html(resp) ==
  IF resp.exc THEN Exception("ConnectionError")
  ELSE IF RaisesForStatus(resp.status) THEN Exception("HTTPError")
  ELSE Value(SearchOgImage(resp.text, 1))

(***************************************************************************)
(* resolve_og                                                              *)
(***************************************************************************)
WHITESPACE == {" ", "\t"}

\* str.strip()
RECURSIVE Strip(_)
Strip(s) ==
  IF s = EMPTY THEN s
  ELSE IF s[1] \in WHITESPACE THEN Strip(Tail(s))
  ELSE IF s[Len(s)] \in WHITESPACE THEN Strip(SubSeq(s, 1, Len(s) - 1))
  ELSE s

\* os.getenv(name, default) on an environment entry
Getenv(env, default) == IF env.set THEN env.value ELSE default

\* the same without .strip()
TokenOf_NoStrip(env) == Getenv(env, EMPTY)

\* line 60; the empty string stands for None (both are falsy at line 61)
TokenOf(env) == Strip(Getenv(env, EMPTY))

MSG_NO_OG == "Could not find Open Graph image for this repository."

Resolved(o, r, url) == [err |-> NO_ERROR, msg |-> "", owner |-> o, repo |-> r, url |-> url]

ResolveRaised(type, msg) ==
  [err |-> type, msg |-> msg, owner |-> EMPTY, repo |-> EMPTY, url |-> EMPTY]

\* line 68: f"https://github.com/{owner}/{repo}"
RepoPageUrl(o, r) == HTTPS_PREFIX \o GITHUB_COM \o SLASH \o o \o SLASH \o r

Request(method, url) == [method |-> method, url |-> url]

\* ---- the inputs ----
TOKEN == <<"t", "k">>

TokenEnvs ==
  { [set |-> FALSE, value |-> EMPTY],
    [set |-> TRUE, value |-> EMPTY],
    [set |-> TRUE, value |-> <<" ", "\t">>],
    [set |-> TRUE, value |-> TOKEN],
    [set |-> TRUE, value |-> <<" ">> \o TOKEN \o <<" ">>] }

OCT == <<"o", "c", "t">>

ResolveUrls ==
  { GITHUB_COM \o SLASH \o OCT \o SLASH \o <<"H", "i", "-", "W">> \o DOT_GIT,
    HTTPS_PREFIX \o GITHUB_COM \o SLASH \o OCT \o SLASH \o <<"r">>,
    HTTPS_PREFIX \o <<"e", "x", ".", "o", "r", "g">> \o SLASH \o OCT \o SLASH \o <<"r">>,
    HTTP_PREFIX \o GITHUB_COM \o SLASH \o OCT }

U1 == <<"u", "1">>

U2 == <<"u", "2">>

U3 == <<"u", "3">>

Repository(v) == JObj([data |-> JObj([repository |-> v])])

\* JSON bodies of the GraphQL response
ApiBodies ==
  << Repository(JObj([openGraphImageUrl |-> JStr(U1)])),
     Repository(JObj([openGraphImageUrl |-> JStr(EMPTY)])),
     Repository(JObj([openGraphImageUrl |-> JNull])),
     Repository(JEmptyObj),
     Repository(JNull),
     JObj([data |-> JNull]),
     JObj([data |-> JEmptyObj]),
     JObj([message |-> JStr(<<"b", "a", "d">>)]),
     JStr(<<"x">>) >>

ApiStatuses == {200, 401, 502}

ApiResponse(exc, status, json_ok, body) ==
  [exc |-> exc, status |-> status, json_ok |-> json_ok, body |-> body]

NoApiResponse == ApiResponse(FALSE, 0, FALSE, JNull)

Meta(property, content) ==
  [meta |-> TRUE, property |-> property, content_after |-> TRUE, content |-> content]

\* <meta content="..." property="...">: the content attribute comes first
MetaContentFirst(property, content) ==
  [meta |-> TRUE, property |-> property, content_after |-> FALSE, content |-> content]

\* <link property="..." content="...">
Link(property, content) ==
  [meta |-> FALSE, property |-> property, content_after |-> TRUE, content |-> content]

OG_TITLE == <<"o", "g", ":", "t", "i", "t", "l", "e">>

HtmlTexts ==
  << <<>>,
     << Meta(OG_TITLE, U3), Meta(OG_IMAGE, U2) >>,
     << Meta(<<"O", "G", ":", "I", "m", "a", "g", "e">>, U3), Meta(OG_IMAGE, U2) >>,
     << Meta(OG_IMAGE, EMPTY) >>,
     << Meta(OG_IMAGE, EMPTY), Meta(OG_IMAGE, U2) >>,
     << MetaContentFirst(OG_IMAGE, U2) >>,
     << Link(OG_IMAGE, U2), Meta(OG_TITLE, U3) >> >>

HtmlStatuses == {200, 404, 500}

HtmlResponse(exc, status, text) == [exc |-> exc, status |-> status, text |-> text]

NoHtmlResponse == HtmlResponse(FALSE, 0, <<>>)

NoResolveInput == [repo_url |-> EMPTY, env |-> [set |-> FALSE, value |-> EMPTY]]

NoIdentity == [owner |-> EMPTY, repo |-> EMPTY, token |-> EMPTY]

NoResolveReturn == ResolveRaised("unset", "")

ResolveIdle ==
  /\ res_pc = "idle"
  /\ res_in = NoResolveInput
  /\ res_id = NoIdentity
  /\ res_reqs = <<>>
  /\ res_api = NoApiResponse
  /\ res_html = NoHtmlResponse
  /\ res_ret = NoResolveReturn

\* lines 58-61: parse the URL, read the token, choose the first path
ResolveCall ==
  /\ res_pc = "idle"
  /\ \E u \in ResolveUrls, env \in TokenEnvs :
       LET parsed == parse_owner_repo(u)
           token  == TokenOf(env)
       IN /\ res_in' = [repo_url |-> u, env |-> env]
          /\ IF parsed.err # NO_ERROR
             THEN /\ res_ret' = ResolveRaised(parsed.err, parsed.msg)
                  /\ res_pc' = "done"
                  /\ UNCHANGED res_id
             ELSE /\ res_id' = [owner |-> parsed.owner, repo |-> parsed.repo, token |-> token]
                  /\ res_pc' = IF token # EMPTY THEN "graphql" ELSE "html"
                  /\ UNCHANGED res_ret
  /\ UNCHANGED <<res_reqs, res_api, res_html, parse_vars, fetch_vars>>

\* an except clause that names only the requests exceptions
CaughtByExcept_RequestsOnly(type) == type \in {"ConnectionError", "HTTPError"}

\* line 66, "except Exception": every exception the try block can raise is one
CaughtByExcept(type) ==
  type \in {"ConnectionError", "HTTPError", "JSONDecodeError", "AttributeError"}

\* lines 62-67: the GraphQL POST; any exception is swallowed
ResolveGraphql ==
  /\ res_pc = "graphql"
  /\ \E exc \in BOOLEAN, status \in ApiStatuses, json_ok \in BOOLEAN, b \in DOMAIN ApiBodies :
       LET resp == ApiResponse(exc, status, json_ok, ApiBodies[b])
           got  == get_og_via_graphql(resp)
       IN /\ res_api' = resp
          /\ res_reqs' = Append(res_reqs, Request("POST", GITHUB_GRAPHQL))
          /\ IF got.raised = NO_ERROR /\ Truthy(got.value)
             THEN /\ res_ret' = Resolved(res_id.owner, res_id.repo, got.value.s)
                  /\ res_pc' = "done"
             ELSE IF got.raised # NO_ERROR /\ ~CaughtByExcept(got.raised)
             THEN /\ res_ret' = ResolveRaised(got.raised, "")
                  /\ res_pc' = "done"
             ELSE /\ res_pc' = "html"
                  /\ UNCHANGED res_ret
  /\ UNCHANGED <<res_in, res_id, res_html, parse_vars, fetch_vars>>

\* lines 68-71: the HTML GET; its exceptions propagate
ResolveHtml ==
  /\ res_pc = "html"
  /\ \E exc \in BOOLEAN, status \in HtmlStatuses, t \in DOMAIN HtmlTexts :
       LET resp == HtmlResponse(exc, status, HtmlTexts[t])
           got  == get_og_from_html(resp)
       IN /\ res_html' = resp
          /\ res_reqs' = Append(res_reqs, Request("GET", RepoPageUrl(res_id.owner, res_id.repo)))
          /\ res_ret' = IF got.raised # NO_ERROR THEN ResolveRaised(got.raised, "")
                        ELSE IF ~Truthy(got.value) THEN ResolveRaised("RuntimeError", MSG_NO_OG)
                        ELSE Resolved(res_id.owner, res_id.repo, got.value.s)
  /\ res_pc' = "done"
  /\ UNCHANGED <<res_in, res_id, res_api, parse_vars, fetch_vars>>

ResolveReset ==
  /\ res_pc = "done"
  /\ res_pc' = "idle"
  /\ res_in' = NoResolveInput
  /\ res_id' = NoIdentity
  /\ res_reqs' = <<>>
  /\ res_api' = NoApiResponse
  /\ res_html' = NoHtmlResponse
  /\ res_ret' = NoResolveReturn
  /\ UNCHANGED <<parse_vars, fetch_vars>>

ResolveNext == ResolveCall \/ ResolveGraphql \/ ResolveHtml \/ ResolveReset

(***************************************************************************)
(* The cache directory DL_DIR and its file names.                          *)
(***************************************************************************)
ALNUM ==
  { "a", "b", "c", "d", "e", "f", "g", "h", "i", "j", "k", "l", "m", "n", "o", "p", "q",
    "r", "s", "t", "u", "v", "w", "x", "y", "z",
    "A", "B", "C", "D", "E", "F", "G", "H", "I", "J", "K", "L", "M", "N", "O", "P", "Q",
    "R", "S", "T", "U", "V", "W", "X", "Y", "Z",
    "0", "1", "2", "3", "4", "5", "6", "7", "8", "9" }

\* the characters [a-zA-Z0-9_.-] of line 109
SafeChars == ALNUM \cup {"_", ".", "-"}

\* re.sub(r"[^a-zA-Z0-9_.-]", "_", s)
Sanitize(s) == [i \in 1..Len(s) |-> IF s[i] \in SafeChars THEN s[i] ELSE "_"]

DASH == <<"-">>

OPENGRAPH == <<"o", "p", "e", "n", "g", "r", "a", "p", "h">>

\* line 109: f"{owner}-{repo}-opengraph{ext}", sanitised
SafeName(o, r, ext) == Sanitize(o \o DASH \o r \o DASH \o OPENGRAPH \o ext)

\* line 74: f"{owner}-{repo}-opengraph.*"
CachePattern(o, r) == o \o DASH \o r \o DASH \o OPENGRAPH \o <<".", "*">>

\* glob matching of one file name: "*" is any run of characters, "?" any one
\* character, every other character itself
RECURSIVE GlobMatch(_, _)
GlobMatch(pat, s) ==
  IF pat = EMPTY THEN s = EMPTY
  ELSE IF Head(pat) = "*"
       THEN \E k \in 0..Len(s) : GlobMatch(Tail(pat), SubSeq(s, k + 1, Len(s)))
  ELSE IF s = EMPTY THEN FALSE
  ELSE IF Head(pat) = "?" THEN GlobMatch(Tail(pat), Tail(s))
  ELSE Head(pat) = Head(s) /\ GlobMatch(Tail(pat), Tail(s))

\* find_cached: the files of directory d that the glob yields (every entry of
\* the model's directory is a regular file); the code returns the first in
\* directory order, None when the set is empty
find_cached(d, o, r) == { n \in DOMAIN d : GlobMatch(CachePattern(o, r), n) }

(***************************************************************************)
(* The file extension, lines 101-107.                                      *)
(***************************************************************************)
EXT_JPG == <<".", "j", "p", "g">>

EXT_PNG == <<".", "p", "n", "g">>

EXT_JPEG == <<".", "j", "p", "e", "g">>

EXT_WEBP == <<".", "w", "e", "b", "p">>

EXT_GIF == <<".", "g", "i", "f">>

IMAGE_SLASH == <<"i", "m", "a", "g", "e", "/">>

CT_PNG == IMAGE_SLASH \o <<"p", "n", "g">>

CT_JPEG == IMAGE_SLASH \o <<"j", "p", "e", "g">>

CT_WEBP == IMAGE_SLASH \o <<"w", "e", "b", "p">>

CT_GIF == IMAGE_SLASH \o <<"g", "i", "f">>

\* mimetypes.guess_extension on the image types; EMPTY stands for None
guess_extension(ctype) ==
  CASE ctype = CT_PNG  -> EXT_PNG
    [] ctype = CT_JPEG -> EXT_JPG
    [] ctype = CT_WEBP -> EXT_WEBP
    [] ctype = CT_GIF  -> EXT_GIF
    [] OTHER           -> EMPTY

\* line 102: (r.headers.get("Content-Type") or "").lower().split(";")[0]
CtypeOf(header) ==
  LET v == Lower(IF header.present THEN header.value ELSE EMPTY)
  IN SubSeq(v, 1, FindFrom(v, 1, {";"}) - 1)

\* index of the last character of s that is c; 0 when there is none
RECURSIVE RFind(_, _, _)
RFind(s, i, c) ==
  IF i = 0 THEN 0
  ELSE IF s[i] = c THEN i
  ELSE RFind(s, i - 1, c)

\* pathlib.Path(url).suffix for a url that does not end in "/"
PathSuffix(url) ==
  LET name == SubSeq(url, RFind(url, Len(url), "/") + 1, Len(url))
      i    == RFind(name, Len(name), ".")
  IN IF 1 < i /\ i < Len(name) THEN SubSeq(name, i, Len(name)) ELSE EMPTY

\* line 106
HasImageSuffix(url) ==
  \E e \in {EXT_PNG, EXT_JPG, EXT_JPEG, EXT_WEBP, EXT_GIF} : EndsWith(Lower(url), e)

\* lines 101-107
ExtensionFor(header, url) ==
  LET ctype == CtypeOf(header)
      guess == IF ctype # EMPTY THEN guess_extension(ctype) ELSE EMPTY
  IN IF guess # EMPTY THEN guess
     ELSE IF HasImageSuffix(url) THEN PathSuffix(url)
     ELSE EXT_JPG

(***************************************************************************)
(* download_with_retry                                                     *)
(***************************************************************************)
MAX_RETRIES_DEFAULT == 5

FIRST_ATTEMPT == 1

INITIAL_BACKOFF == 1

\* a loop that starts one attempt early
FirstAttempt_Zero == FIRST_ATTEMPT - 1

\* line 93: range(1, max_retries + 1) starts at 1
FirstAttempt == FIRST_ATTEMPT

\* a loop that stops one attempt short
InRange_Short(attempt, max_retries) == attempt < max_retries

\* line 93: range(1, max_retries + 1) ends with max_retries
InRange(attempt, max_retries) == attempt <= max_retries

\* line 95
IsRateLimited(status) == status = 429

\* a backoff that grows by one second
NextBackoff_PlusOne(backoff) == backoff + 1

\* line 97: backoff *= 2
NextBackoff(backoff) == backoff * 2

\* a loop variable that does not advance
NextAttempt_Same(attempt) == attempt

\* line 93: the next value of range(1, max_retries + 1)
NextAttempt(attempt) == attempt + 1

\* lines 118-119, character by character
MSG_RATE_LIMITED ==
  << "G", "i", "t", "H", "u", "b", " ", "r", "a", "t", "e", "-", "l", "i", "m", "i",
     "t", "e", "d", " ", "t", "h", "e", " ", "i", "m", "a", "g", "e", " ", "C", "D",
     "N", " ", "(", "4", "2", "9", ")", ".", " ", "T", "r", "y", " ", "a", "g", "a",
     "i", "n", " ", "s", "h", "o", "r", "t", "l", "y", ",", " ", "o", "r", " ", "u",
     "s", "e", " ", "'", "O", "p", "e", "n", " ", "i", "m", "a", "g", "e", " ", "U",
     "R", "L", "'", " ", "a", "n", "d", " ", "s", "a", "v", "e", " ", "i", "t", " ",
     "d", "i", "r", "e", "c", "t", "l", "y", " ", "i", "n", " ", "y", "o", "u", "r",
     " ", "b", "r", "o", "w", "s", "e", "r", "." >>

\* the decimal digits of an HTTP status
StatusDigits(status) ==
  LET D == <<"0", "1", "2", "3", "4", "5", "6", "7", "8", "9">>
  IN << D[(status \div 100) + 1], D[((status \div 10) % 10) + 1], D[(status % 10) + 1] >>

\* the reason phrase of the status line
ReasonOf(status) ==
  CASE status = 404 -> << "N", "o", "t", " ", "F", "o", "u", "n", "d" >>
    [] status = 503 -> << "S", "e", "r", "v", "i", "c", "e", " ", "U", "n", "a", "v", "a", "i", "l",
             "a", "b", "l", "e" >>
    [] OTHER        -> EMPTY

\* str() of the HTTPError of raise_for_status (line 99):
\* "{status} Client|Server Error: {reason} for url: {url}"
HttpErrorText(status, url) ==
  StatusDigits(status)
    \o (IF status < 500 THEN << " ", "C", "l", "i", "e", "n", "t", " ", "E", "r", "r", "o", "r", ":",
             " " >>
                        ELSE << " ", "S", "e", "r", "v", "e", "r", " ", "E", "r", "r", "o", "r", ":",
             " " >>)
    \o ReasonOf(status)
    \o << " ", "f", "o", "r", " ", "u", "r", "l", ":", " " >>
    \o url

\* str() of the ConnectionError of SESSION.get (line 94): it names the URL
ConnectionErrorText(url) ==
  << "M", "a", "x", " ", "r", "e", "t", "r", "i", "e", "s", " ", "e", "x", "c", "e",
     "e", "d", "e", "d", " ", "w", "i", "t", "h", " ", "u", "r", "l", ":", " " >>
    \o url

\* str() of the OSError of open (line 111): it names the file
OpenErrorText(path) ==
  << "[", "E", "r", "r", "n", "o", " ", "1", "3", "]", " ", "P", "e", "r", "m", "i",
     "s", "s", "i", "o", "n", " ", "d", "e", "n", "i", "e", "d", ":", " ", "'" >>
    \o path \o <<"'">>

\* str() of the errors raised while the body is read and written (lines 112-114)
WriteErrorText(type) ==
  IF type = "OSError"
  THEN << "[", "E", "r", "r", "n", "o", " ", "2", "8", "]", " ", "N", "o", " ", "s",
          "p", "a", "c", "e", " ", "l", "e", "f", "t", " ", "o", "n", " ", "d", "e",
          "v", "i", "c", "e" >>
  ELSE << "C", "o", "n", "n", "e", "c", "t", "i", "o", "n", " ", "b", "r", "o", "k",
          "e", "n", ":", " ", "I", "n", "c", "o", "m", "p", "l", "e", "t", "e", "R",
          "e", "a", "d" >>

FetchReturned(path) == [err |-> NO_ERROR, msg |-> EMPTY, path |-> path]

FetchRaised(type, msg) == [err |-> type, msg |-> msg, path |-> EMPTY]

\* f.write at byte offset pos of a file opened "wb": bytes past the end of the
\* file extend it, a gap is filled with zero bytes
ZERO_BYTE == [tag |-> "zero", i |-> 0]

WriteAt(content, pos, chunk) ==
  LET n == IF Len(content) > pos + Len(chunk) THEN Len(content) ELSE pos + Len(chunk)
  IN [i \in 1..n |-> IF i > pos /\ i <= pos + Len(chunk) THEN chunk[i - pos]
                     ELSE IF i <= Len(content) THEN content[i]
                     ELSE ZERO_BYTE]

\* open(path, "wb"): the file exists afterwards and is empty
OpenTruncate(d, path) == [n \in DOMAIN d \cup {path} |-> IF n = path THEN <<>> ELSE d[n]]

\* all the bytes of a response body, chunk after chunk
RECURSIVE Flatten(_)
Flatten(chunks) == IF chunks = <<>> THEN <<>> ELSE Head(chunks) \o Flatten(Tail(chunks))

\* line 149: the needle of the status test
RATE_LIMITED == <<"r", "a", "t", "e", "-", "l", "i", "m", "i", "t", "e", "d">>

\* lines 147-149: FileResponse (200) for a path; for an exception e,
\* 429 if "rate-limited" in str(e).lower() else 400
SaveStatus(ret) ==
  IF ret.err = NO_ERROR THEN 200
  ELSE IF Contains(Lower(ret.msg), RATE_LIMITED) THEN 429
  ELSE 400

\* ---- the inputs ----
\* calls of download_with_retry in a run that explores the retry loop
MaxRetryCalls == 1

\* calls of download_with_retry in a run that explores the cache
MaxCalls == 2

MaxChunks == 1

Procs == {1, 2}

Identity(o, r) == [owner |-> o, repo |-> r]

\* the identities of the runs that explore the retry loop
RetryIdentities == { Identity(<<"a">>, <<"c">>), Identity(<<"a", "@">>, <<"c">>) }

\* the identities of the runs that explore the cache
CacheIdentities ==
  { Identity(<<"a">>, <<"c">>),
    Identity(<<"a">>, <<"b", "-", "c">>),
    Identity(<<"a", "-", "b">>, <<"c">>),
    Identity(<<"a", "@">>, <<"c">>),
    Identity(<<"a", "_">>, <<"c">>) }

URL_PLAIN == <<"h", "/", "i">>

URL_UPPER_PNG == <<"h", "/", "i", ".", "P", "N", "G">>

URL_DOT_PNG == <<"h", "/", ".", "p", "n", "g">>

ImageUrls == { URL_PLAIN, URL_UPPER_PNG, URL_DOT_PNG }

CacheUrls == { URL_PLAIN, URL_DOT_PNG }

MaxRetriesChoices == {1, 2, MAX_RETRIES_DEFAULT}

\* 0 in the log of responses stands for an exception raised by SESSION.get
ImageStatuses == {200, 304, 404, 429, 503}

ContentTypes ==
  { [present |-> FALSE, value |-> EMPTY],
    [present |-> TRUE, value |-> CT_PNG],
    [present |-> TRUE, value |-> <<"I", "M", "A", "G", "E", "/", "J", "P", "E", "G", ";", "q">>],
    [present |-> TRUE, value |-> IMAGE_SLASH \o <<"x">>] }

Byte(tag, i) == [tag |-> tag, i |-> i]

\* a body of n one-byte chunks
BodyOf(tag, n) == [i \in 1..n |-> << Byte(tag, i) >>]

\* response bodies as iter_content yields them, among them one with an empty chunk
Bodies ==
  { BodyOf("P", n) : n \in 0..MaxChunks } \cup { << << Byte("Q", 1) >>, <<>> >> }

CacheContentTypes == { [present |-> FALSE, value |-> EMPTY], [present |-> TRUE, value |-> CT_PNG] }

CacheBodies == { BodyOf("P", 1), BodyOf("Q", 1) }

\* a 304 response carries no body
BodiesFor(status, bodies) == IF status = 304 THEN { <<>> } ELSE bodies

NoHeader == [present |-> FALSE, value |-> EMPTY]

NoFetchReturn == FetchRaised("unset", EMPTY)

IdleFetch ==
  [pc |-> "idle", url |-> EMPTY, owner |-> EMPTY, repo |-> EMPTY, max_retries |-> 0,
   hit |-> FALSE, attempt |-> 0, backoff |-> 0, got |-> <<>>, sleeps |-> <<>>,
   header |-> NoHeader, body |-> <<>>, out_path |-> EMPTY, chunk |-> 0, pos |-> 0,
   written |-> {}, dir0 |-> <<>>, ret |-> NoFetchReturn]

NoLast ==
  [url |-> EMPTY, owner |-> EMPTY, repo |-> EMPTY, downloaded |-> FALSE, path |-> EMPTY,
   status |-> 0]

\* DL_DIR outlives the process (line 10, mkdir(exist_ok=True)): at start it is
\* empty, or holds a file that an earlier run downloaded completely
InitialDirs ==
  { <<>>,
    [n \in { SafeName(<<"a">>, <<"c">>, EXT_PNG) } |-> Flatten(BodyOf("P", 1))] }

FetchIdle ==
  /\ dir \in InitialDirs
  /\ fetch = [w \in Procs |-> IdleFetch]
  /\ last = NoLast
  /\ calls = 0

\* line 79: a call of download_with_retry(url, owner, repo, max_retries), its
\* arguments drawn from the given sets
FetchCall(w, urls, ids, retries, max_calls) ==
  /\ fetch[w].pc = "idle"
  /\ calls < max_calls
  /\ \E u \in urls, id \in ids, m \in retries :
       fetch' = [fetch EXCEPT ![w] =
                   [IdleFetch EXCEPT !.pc = "find_cached", !.url = u, !.owner = id.owner,
                                     !.repo = id.repo, !.max_retries = m, !.dir0 = dir]]
  /\ calls' = calls + 1
  /\ UNCHANGED <<dir, last, parse_vars, res_vars>>

\* lines 80-82: a cached file is returned at once
FetchCacheHit(w) ==
  /\ fetch[w].pc = "find_cached"
  /\ \E p \in find_cached(dir, fetch[w].owner, fetch[w].repo) :
       fetch' = [fetch EXCEPT ![w].pc = "done", ![w].hit = TRUE, ![w].ret = FetchReturned(p)]
  /\ UNCHANGED <<dir, last, calls, parse_vars, res_vars>>

\* lines 80-92: no cached file; the retry loop starts
FetchCacheMiss(w) ==
  /\ fetch[w].pc = "find_cached"
  /\ find_cached(dir, fetch[w].owner, fetch[w].repo) = {}
  /\ fetch' = [fetch EXCEPT ![w].pc = "get", ![w].attempt = FirstAttempt,
                            ![w].backoff = INITIAL_BACKOFF]
  /\ UNCHANGED <<dir, last, calls, parse_vars, res_vars>>

\* lines 94-98: the GET is answered 429; sleep backoff plus a jitter in
\* [0, 0.35] s (the log keeps the base), double the backoff, next attempt
FetchGetRateLimited(w) ==
  /\ fetch[w].pc = "get"
  /\ InRange(fetch[w].attempt, fetch[w].max_retries)
  /\ \E status \in ImageStatuses :
       /\ IsRateLimited(status)
       /\ fetch' = [fetch EXCEPT ![w].got = Append(@, status),
                                 ![w].sleeps = Append(@, fetch[w].backoff),
                                 ![w].backoff = NextBackoff(@),
                                 ![w].attempt = NextAttempt(@)]
  /\ UNCHANGED <<dir, last, calls, parse_vars, res_vars>>

\* line 94: SESSION.get raises (connection error, timeout)
FetchGetException(w) ==
  /\ fetch[w].pc = "get"
  /\ InRange(fetch[w].attempt, fetch[w].max_retries)
  /\ fetch' = [fetch EXCEPT ![w].pc = "done", ![w].got = Append(@, 0),
                            ![w].ret = FetchRaised("ConnectionError",
                                                  ConnectionErrorText(fetch[w].url))]
  /\ UNCHANGED <<dir, last, calls, parse_vars, res_vars>>

\* lines 94-99: the GET is answered with a status raise_for_status rejects
FetchGetHttpError(w) ==
  /\ fetch[w].pc = "get"
  /\ InRange(fetch[w].attempt, fetch[w].max_retries)
  /\ \E status \in ImageStatuses :
       /\ ~IsRateLimited(status)
       /\ RaisesForStatus(status)
       /\ fetch' = [fetch EXCEPT ![w].pc = "done", ![w].got = Append(@, status),
                                 ![w].ret = FetchRaised("HTTPError",
                                                        HttpErrorText(status, fetch[w].url))]
  /\ UNCHANGED <<dir, last, calls, parse_vars, res_vars>>

\* lines 94-110: the GET is answered with a status raise_for_status lets
\* through; the extension and the target path are computed
FetchGetOk(w, headers, bodies) ==
  /\ fetch[w].pc = "get"
  /\ InRange(fetch[w].attempt, fetch[w].max_retries)
  /\ \E status \in ImageStatuses, h \in headers :
      \E b \in BodiesFor(status, bodies) :
       /\ ~IsRateLimited(status)
       /\ ~RaisesForStatus(status)
       /\ fetch' = [fetch EXCEPT
                      ![w].pc = "open", ![w].got = Append(@, status),
                      ![w].header = h, ![w].body = b,
                      ![w].out_path = SafeName(fetch[w].owner, fetch[w].repo,
                                               ExtensionFor(h, fetch[w].url))]
  /\ UNCHANGED <<dir, last, calls, parse_vars, res_vars>>

\* lines 117-120: the loop ran out of attempts
FetchExhausted(w) ==
  /\ fetch[w].pc = "get"
  /\ ~InRange(fetch[w].attempt, fetch[w].max_retries)
  /\ fetch' = [fetch EXCEPT ![w].pc = "done",
                            ![w].ret = FetchRaised("RuntimeError", MSG_RATE_LIMITED)]
  /\ UNCHANGED <<dir, last, calls, parse_vars, res_vars>>

\* line 111: open(out_path, "wb") creates or truncates the file
FetchOpen(w) ==
  /\ fetch[w].pc = "open"
  /\ dir' = OpenTruncate(dir, fetch[w].out_path)
  /\ fetch' = [fetch EXCEPT ![w].pc = "write", ![w].chunk = 0, ![w].pos = 0,
                            ![w].written = @ \cup {fetch[w].out_path}]
  /\ UNCHANGED <<last, calls, parse_vars, res_vars>>

\* line 111: open raises OSError; no file is created
FetchOpenFails(w) ==
  /\ fetch[w].pc = "open"
  /\ fetch' = [fetch EXCEPT ![w].pc = "done",
                            ![w].ret = FetchRaised("OSError", OpenErrorText(fetch[w].out_path))]
  /\ UNCHANGED <<dir, last, calls, parse_vars, res_vars>>

\* lines 112-114: the next chunk of the body; an empty chunk is skipped
FetchWriteChunk(w) ==
  /\ fetch[w].pc = "write"
  /\ fetch[w].chunk < Len(fetch[w].body)
  /\ LET c == fetch[w].body[fetch[w].chunk + 1]
     IN IF c # <<>>
        THEN /\ dir' = [dir EXCEPT ![fetch[w].out_path] = WriteAt(@, fetch[w].pos, c)]
             /\ fetch' = [fetch EXCEPT ![w].chunk = @ + 1, ![w].pos = @ + Len(c)]
        ELSE /\ fetch' = [fetch EXCEPT ![w].chunk = @ + 1]
             /\ UNCHANGED dir
  /\ UNCHANGED <<last, calls, parse_vars, res_vars>>

\* lines 112-114: iter_content or f.write raises; the with block closes the
\* file, which stays in the directory as written so far
FetchWriteFails(w) ==
  /\ fetch[w].pc = "write"
  /\ \E type \in {"ChunkedEncodingError", "OSError"} :
       fetch' = [fetch EXCEPT ![w].pc = "done",
                                 ![w].ret = FetchRaised(type, WriteErrorText(type))]
  /\ UNCHANGED <<dir, last, calls, parse_vars, res_vars>>

\* line 115: the body is exhausted, the file is closed, out_path is returned
FetchReturn(w) ==
  /\ fetch[w].pc = "write"
  /\ fetch[w].chunk = Len(fetch[w].body)
  /\ fetch' = [fetch EXCEPT ![w].pc = "done", ![w].ret = FetchReturned(fetch[w].out_path)]
  /\ UNCHANGED <<dir, last, calls, parse_vars, res_vars>>

\* a caller of the function has the result; last remembers the call
FetchReset(w) ==
  /\ fetch[w].pc = "done"
  /\ last' = [url |-> fetch[w].url, owner |-> fetch[w].owner, repo |-> fetch[w].repo,
              downloaded |-> fetch[w].ret.err = NO_ERROR /\ ~fetch[w].hit,
              path |-> fetch[w].ret.path,
              status |-> 0]
  /\ fetch' = [fetch EXCEPT ![w] = IdleFetch]
  /\ UNCHANGED <<dir, calls, parse_vars, res_vars>>

\* lines 147-149: /save has the result and answers its request; last
\* remembers the call and the status of the answer
SaveRespond(w) ==
  /\ fetch[w].pc = "done"
  /\ last' = [url |-> fetch[w].url, owner |-> fetch[w].owner, repo |-> fetch[w].repo,
              downloaded |-> fetch[w].ret.err = NO_ERROR /\ ~fetch[w].hit,
              path |-> fetch[w].ret.path,
              status |-> SaveStatus(fetch[w].ret)]
  /\ fetch' = [fetch EXCEPT ![w] = IdleFetch]
  /\ UNCHANGED <<dir, calls, parse_vars, res_vars>>

\* one caller, so that the calls follow one another; every response the
\* image server can give, the retry loop included
FetchNext ==
  \/ FetchCall(1, ImageUrls, RetryIdentities, MaxRetriesChoices, MaxRetryCalls)
  \/ FetchCacheHit(1)
  \/ FetchCacheMiss(1)
  \/ FetchGetRateLimited(1)
  \/ FetchGetException(1)
  \/ FetchGetHttpError(1)
  \/ FetchGetOk(1, ContentTypes, Bodies)
  \/ FetchExhausted(1)
  \/ FetchOpen(1)
  \/ FetchOpenFails(1)
  \/ FetchWriteChunk(1)
  \/ FetchWriteFails(1)
  \/ FetchReturn(1)
  \/ FetchReset(1)

\* one caller, the default max_retries, and an image server that does not
\* answer 429: several calls for several identities, one after the other
CacheNext ==
  \/ FetchCall(1, CacheUrls, CacheIdentities, {MAX_RETRIES_DEFAULT}, MaxCalls)
  \/ FetchCacheHit(1)
  \/ FetchCacheMiss(1)
  \/ FetchGetException(1)
  \/ FetchGetHttpError(1)
  \/ FetchGetOk(1, CacheContentTypes, CacheBodies)
  \/ FetchOpen(1)
  \/ FetchOpenFails(1)
  \/ FetchWriteChunk(1)
  \/ FetchWriteFails(1)
  \/ FetchReturn(1)
  \/ FetchReset(1)

\* ---- the /save endpoint ----
\* requests to /save in a run that explores its answers
MaxSaveCalls == 1

URL_RATE_LIMITED == <<"h", "/", "R", "a", "t", "e", "-", "L", "i", "m", "i", "t", "e", "d">>

SaveUrls == { URL_PLAIN, URL_RATE_LIMITED }

\* line 146: /save calls download_with_retry(img_url, owner, repo), hence with
\* the default max_retries
SaveNext ==
  \/ FetchCall(1, SaveUrls, RetryIdentities, {MAX_RETRIES_DEFAULT}, MaxSaveCalls)
  \/ FetchCacheHit(1)
  \/ FetchCacheMiss(1)
  \/ FetchGetRateLimited(1)
  \/ FetchGetException(1)
  \/ FetchGetHttpError(1)
  \/ FetchGetOk(1, CacheContentTypes, CacheBodies)
  \/ FetchExhausted(1)
  \/ FetchOpen(1)
  \/ FetchOpenFails(1)
  \/ FetchWriteChunk(1)
  \/ FetchWriteFails(1)
  \/ FetchReturn(1)
  \/ SaveRespond(1)

\* ---- a request that resolves, then a request that fetches ----
\* calls of download_with_retry in a run that follows calls to their end
MaxLiveCalls == 1

LiveIdentities == { Identity(<<"a">>, <<"c">>) }

\* a step of resolve_og; the caller resolves before it fetches
\* (POST / gives the link to /save, lines 129-136)
LiveResolve ==
  /\ calls = 0
  /\ fetch[1].pc = "idle"
  /\ ResolveNext

\* a new call of download_with_retry, once resolve_og has returned
LiveFetchCall ==
  /\ res_pc = "idle"
  /\ FetchCall(1, {URL_PLAIN}, LiveIdentities, MaxRetriesChoices, MaxLiveCalls)

\* the next step of a call of download_with_retry in progress: a line of its
\* code, or the answer to its GET
FetchStep ==
  \/ FetchCacheHit(1)
  \/ FetchCacheMiss(1)
  \/ FetchGetRateLimited(1)
  \/ FetchGetException(1)
  \/ FetchGetHttpError(1)
  \/ FetchGetOk(1, CacheContentTypes, CacheBodies)
  \/ FetchExhausted(1)
  \/ FetchOpen(1)
  \/ FetchOpenFails(1)
  \/ FetchWriteChunk(1)
  \/ FetchWriteFails(1)
  \/ FetchReturn(1)

\* the next step of a call of resolve_og in progress: the answer to its
\* POST or to its GET and the code that follows it
ResolveStep == ResolveGraphql \/ ResolveHtml

LiveNext == LiveResolve \/ LiveFetchCall \/ FetchStep \/ FetchReset(1)

\* Both functions are straight-line blocking code: a call in progress takes
\* its next step.  Every request carries a timeout (lines 48, 53, 94), so it
\* ends with a response or with an exception, and a response body ends.
LiveFairness == WF_vars(FetchStep) /\ WF_vars(ResolveStep)

\* ---- two calls at once ----
\* calls of download_with_retry in a run of two concurrent callers
MaxRaceCalls == 2

RaceIdentities == { Identity(<<"a">>, <<"c">>) }

RaceUrls == { URL_PLAIN }

\* a body of two chunks and a body of one
RaceBodies == { BodyOf("R", 2), BodyOf("Q", 1) }

\* the server runs one call of download_with_retry per request, each on its
\* own worker thread (the endpoints are plain def functions): the steps of
\* the two callers interleave freely, and nothing but DL_DIR is shared
RaceNext ==
  \E w \in Procs :
    \/ FetchCall(w, RaceUrls, RaceIdentities, {MAX_RETRIES_DEFAULT}, MaxRaceCalls)
    \/ FetchCacheHit(w)
    \/ FetchCacheMiss(w)
    \/ FetchGetException(w)
    \/ FetchGetHttpError(w)
    \/ FetchGetOk(w, CacheContentTypes, RaceBodies)
    \/ FetchOpen(w)
    \/ FetchOpenFails(w)
    \/ FetchWriteChunk(w)
    \/ FetchWriteFails(w)
    \/ FetchReturn(w)
    \/ FetchReset(w)

(***************************************************************************)
(* Specifications.                                                         *)
(***************************************************************************)
\* nothing has been called yet
Init == ParseIdle /\ ResolveIdle /\ FetchIdle

SpecParse == Init /\ [][ParseNext]_vars

SpecResolve == Init /\ [][ResolveNext]_vars

SpecFetch == Init /\ [][FetchNext]_vars

SpecCache == Init /\ [][CacheNext]_vars

SpecRace == Init /\ [][RaceNext]_vars

SpecSave == Init /\ [][SaveNext]_vars

SpecLive == Init /\ [][LiveNext]_vars /\ LiveFairness

(***************************************************************************)
(* Claims about parse_owner_repo (SpecParse).                              *)
(***************************************************************************)
\* repository names of the inputs that do not themselves end in ".git"
PlainRepoNames == RepoNames \ { <<"x", ".", "g", "i", "t">> }

\* C9 (as stated): an input whose host is not github.com, or whose path has
\* fewer than two non-empty segments, makes parse_owner_repo raise ValueError
\* (InvalidInput) and return no identity.
C9_InvalidInputRejected ==
  (parse_pc = "done" /\ (parse_in.host # GITHUB_COM \/ ShapeSegments(parse_in.shape) < 2))
    => (parse_ret.err = "ValueError" /\ parse_ret.owner = EMPTY /\ parse_ret.repo = EMPTY)

\* C10: for github.com/{owner}/{repo}, with or without http:// or https://
\* and with or without a trailing .git in any letter case, parse_owner_repo
\* returns exactly (owner, repo): one trailing .git is removed, the case of
\* both names is kept.
C10_ParseReturnsOwnerRepo ==
  (/\ parse_pc = "done"
   /\ parse_in.host = GITHUB_COM
   /\ parse_in.shape = "owner/repo"
   /\ (parse_in.suffix # EMPTY \/ parse_in.base \in PlainRepoNames))
    => parse_ret = Returned(parse_in.owner, parse_in.base)

\* C10 witness: a scheme-less input with an upper-case .GIT and mixed-case
\* names has been parsed
C10_Witness ==
  /\ parse_pc = "done"
  /\ parse_in.scheme = EMPTY
  /\ parse_in.host = GITHUB_COM
  /\ parse_in.shape = "owner/repo"
  /\ parse_in.suffix = <<".", "G", "I", "T">>
  /\ parse_in.owner = <<"A", "-", "b">>
  /\ parse_ret = Returned(<<"A", "-", "b">>, <<"H", "i", "-", "W">>)

(***************************************************************************)
(* Claims about resolve_og (SpecResolve).                                  *)
(***************************************************************************)
\* the environment holds a token that is not blank
TokenConfigured(env) == env.set /\ \E i \in DOMAIN env.value : env.value[i] \notin WHITESPACE

UrlAccepted == parse_owner_repo(res_in.repo_url).err = NO_ERROR

ApiRequested == \E i \in DOMAIN res_reqs : res_reqs[i] = Request("POST", GITHUB_GRAPHQL)

HtmlRequested == \E i \in DOMAIN res_reqs : res_reqs[i].method = "GET"

\* the GraphQL response is a success carrying a non-empty openGraphImageUrl
ApiYieldsUrl(resp) ==
  /\ ~resp.exc
  /\ resp.status < 400
  /\ resp.json_ok
  /\ resp.body.t = "obj"
  /\ "data" \in DOMAIN resp.body.f
  /\ resp.body.f.data.t = "obj"
  /\ "repository" \in DOMAIN resp.body.f.data.f
  /\ resp.body.f.data.f.repository.t = "obj"
  /\ "openGraphImageUrl" \in DOMAIN resp.body.f.data.f.repository.f
  /\ resp.body.f.data.f.repository.f.openGraphImageUrl.t = "str"
  /\ resp.body.f.data.f.repository.f.openGraphImageUrl.s # EMPTY

\* the first og:image meta tag with a non-empty content, EMPTY when none
FirstOgImage(text) ==
  LET I == { i \in DOMAIN text :
               /\ text[i].meta
               /\ Lower(text[i].property) = OG_IMAGE
               /\ text[i].content_after
               /\ text[i].content # EMPTY }
  IN IF I = {} THEN EMPTY ELSE text[CHOOSE i \in I : \A j \in I : i <= j].content

HtmlFetched(resp) == ~resp.exc /\ resp.status < 400

HtmlYieldsUrl(resp) == HtmlFetched(resp) /\ FirstOgImage(resp.text) # EMPTY

\* what the HTML scrape path alone gives for this response
HtmlOutcome(o, r, resp) ==
  IF resp.exc THEN ResolveRaised("ConnectionError", "")
  ELSE IF resp.status >= 400 THEN ResolveRaised("HTTPError", "")
  ELSE IF FirstOgImage(resp.text) = EMPTY THEN ResolveRaised("RuntimeError", MSG_NO_OG)
  ELSE Resolved(o, r, FirstOgImage(resp.text))

\* C6: with a token configured, whenever the GraphQL path fails (network
\* error, HTTP error status, body without a usable openGraphImageUrl) the
\* failure is suppressed: the HTML page is requested next, and resolve_og
\* ends with exactly the HTML path's outcome, its URL or its error.
C6_ApiFailureFallsBackToHtml ==
  (/\ TokenConfigured(res_in.env)
   /\ ApiRequested
   /\ ~ApiYieldsUrl(res_api))
    => /\ res_pc \in {"html", "done"}
       /\ res_pc = "done" =>
            /\ res_reqs = << Request("POST", GITHUB_GRAPHQL),
                             Request("GET", RepoPageUrl(res_id.owner, res_id.repo)) >>
            /\ res_ret = HtmlOutcome(res_id.owner, res_id.repo, res_html)

\* C6 witness: the API answered 200 with "repository": null, and resolve_og
\* returned the URL scraped from the page
C6_Witness ==
  /\ res_pc = "done"
  /\ TokenConfigured(res_in.env)
  /\ ~res_api.exc /\ res_api.status = 200 /\ res_api.json_ok
  /\ res_api.body = Repository(JNull)
  /\ res_ret.err = NO_ERROR
  /\ res_ret.url = U2

\* C7 (as stated, for a URL that parses): a successful return carries a
\* non-empty image URL, and whenever neither path yields an image URL
\* resolve_og fails with RuntimeError "Could not find Open Graph image ...".
C7_NoUrlMeansResolutionFailed ==
  (res_pc = "done" /\ UrlAccepted)
    => /\ res_ret.err = NO_ERROR => res_ret.url # EMPTY
       /\ (~(ApiRequested /\ ApiYieldsUrl(res_api)) /\ ~HtmlYieldsUrl(res_html))
            => (res_ret.err = "RuntimeError" /\ res_ret.msg = MSG_NO_OG)

\* C7 (amended): resolve_og ends either with a non-empty URL that one of the
\* paths yielded, or with an error and no result.  When the page was fetched
\* without error and neither path yields a URL the error is RuntimeError
\* "Could not find Open Graph image ..."; an error of the HTML fetch
\* propagates as itself, and an unparsable URL raises ValueError.
C7_AllOrNothing ==
  res_pc = "done"
    => /\ res_ret.err = NO_ERROR =>
            /\ res_ret.url # EMPTY
            /\ \/ ApiRequested /\ ApiYieldsUrl(res_api)
               \/ HtmlRequested /\ HtmlYieldsUrl(res_html)
       /\ res_ret.err # NO_ERROR =>
            (res_ret.url = EMPTY /\ res_ret.owner = EMPTY /\ res_ret.repo = EMPTY)
       /\ (/\ UrlAccepted
           /\ ~(ApiRequested /\ ApiYieldsUrl(res_api))
           /\ HtmlFetched(res_html)
           /\ ~HtmlYieldsUrl(res_html))
            => (res_ret.err = "RuntimeError" /\ res_ret.msg = MSG_NO_OG)
       /\ (UrlAccepted /\ HtmlRequested /\ ~HtmlFetched(res_html))
            => res_ret.err \in {"ConnectionError", "HTTPError"}
       /\ ~UrlAccepted => res_ret.err = "ValueError"

\* C7 witness: both paths ran, neither found an image, RuntimeError raised
C7_Witness ==
  /\ res_pc = "done"
  /\ Len(res_reqs) = 2
  /\ HtmlFetched(res_html)
  /\ res_ret = ResolveRaised("RuntimeError", MSG_NO_OG)

\* C8 (as stated): with no token configured (unset, empty or blank),
\* resolve_og issues no request to the API endpoint and exactly one
\* request, the GET of the repository page.
C8_NoTokenOneRequest ==
  (res_pc = "done" /\ ~TokenConfigured(res_in.env))
    => /\ ~ApiRequested
       /\ Len(res_reqs) = 1
       /\ res_reqs[1].method = "GET"

\* C8 (amended): with no token configured resolve_og never requests the API
\* endpoint and raises nothing for the missing token; for a URL that
\* parse_owner_repo accepts it issues exactly one request, the GET of the
\* repository page, and ends with that path's outcome; for a URL that is
\* rejected it issues no request at all.
C8_NoTokenNoApiRequest ==
  ~TokenConfigured(res_in.env)
    => /\ ~ApiRequested
       /\ res_pc # "graphql"
       /\ (res_pc = "done" /\ UrlAccepted) =>
            /\ res_reqs = << Request("GET", RepoPageUrl(res_id.owner, res_id.repo)) >>
            /\ res_ret = HtmlOutcome(res_id.owner, res_id.repo, res_html)
       /\ (res_pc = "done" /\ ~UrlAccepted) =>
            (res_reqs = <<>> /\ res_ret.err = "ValueError")

\* C8 witness: GITHUB_TOKEN is set to blanks only, and resolve_og returned a
\* URL after a single request
C8_Witness ==
  /\ res_pc = "done"
  /\ res_in.env = [set |-> TRUE, value |-> <<" ", "\t">>]
  /\ Len(res_reqs) = 1
  /\ res_ret.err = NO_ERROR

\* C15: with a token configured, when the GraphQL answer carries a non-empty
\* openGraphImageUrl, resolve_og returns that URL with the owner and the name
\* that parse_owner_repo gives, after exactly one request, the POST: the page
\* is never requested.  In every call at most two requests are issued, at
\* most one of each kind, and the POST, when made, comes before the GET.
C15_ApiFirstThenHtml ==
  /\ (TokenConfigured(res_in.env) /\ ApiRequested /\ ApiYieldsUrl(res_api))
       => /\ res_pc = "done"
          /\ res_ret = Resolved(parse_owner_repo(res_in.repo_url).owner,
                                parse_owner_repo(res_in.repo_url).repo,
                                res_api.body.f.data.f.repository.f.openGraphImageUrl.s)
          /\ res_reqs = << Request("POST", GITHUB_GRAPHQL) >>
          /\ ~HtmlRequested
  /\ Len(res_reqs) <= 2
  /\ \A i, j \in DOMAIN res_reqs :
       /\ (res_reqs[i].method = "POST" /\ res_reqs[j].method = "GET") => i < j
       /\ (res_reqs[i].method = res_reqs[j].method) => i = j

\* C15 witness: the token is set with blanks around it, the URL ends in
\* .git, and resolve_og returned the URL of the API after the POST alone
C15_Witness ==
  /\ res_pc = "done"
  /\ res_in.env = [set |-> TRUE, value |-> <<" ">> \o TOKEN \o <<" ">>]
  /\ res_reqs = << Request("POST", GITHUB_GRAPHQL) >>
  /\ res_ret = Resolved(OCT, <<"H", "i", "-", "W">>, U1)

(***************************************************************************)
(* Claims about download_with_retry (SpecFetch, SpecCache).                *)
(***************************************************************************)
AllRateLimited(got) == \A i \in DOMAIN got : got[i] = 429

\* the errors raised while the body is written (lines 112-114)
WriteErrors == {"ChunkedEncodingError", "OSError"}

\* C1 (as stated): after a call that downloaded and wrote its file, the next
\* call with the same (url, owner, repo) returns that file and issues no
\* request.
C1_SecondFetchIsCacheHit ==
  (/\ fetch[1].pc = "done"
   /\ last.downloaded
   /\ last.url = fetch[1].url
   /\ last.owner = fetch[1].owner
   /\ last.repo = fetch[1].repo)
    => (fetch[1].ret = FetchReturned(last.path) /\ fetch[1].got = <<>>)

\* C2 (as stated): on a cache miss, after 429 on each of max_retries requests
\* in a row the fetch goes on to one more request, and with a 200 there whose
\* body is written it succeeds and writes exactly one file.
C2_SucceedsAfterMaxRetries429 ==
  (/\ fetch[1].pc = "done"
   /\ ~fetch[1].hit
   /\ Len(fetch[1].got) >= fetch[1].max_retries
   /\ \A i \in 1..fetch[1].max_retries : fetch[1].got[i] = 429)
    => /\ Len(fetch[1].got) = fetch[1].max_retries + 1
       /\ (fetch[1].got[fetch[1].max_retries + 1] = 200 /\ fetch[1].ret.err \notin WriteErrors)
            => (fetch[1].ret.err = NO_ERROR /\ Cardinality(fetch[1].written) = 1)

\* C2 (amended): on a cache miss, a fetch that has received 429 on fewer than
\* max_retries requests in a row keeps requesting, and when the next answer
\* is a 200 whose body is written without error it succeeds: it returns the
\* target path, has written exactly that one file, the file holds the whole
\* body, and no other file of the directory has changed.
C2_SucceedsAfterFewer429 ==
  /\ (/\ fetch[1].pc \notin {"idle", "find_cached"}
      /\ ~fetch[1].hit
      /\ AllRateLimited(fetch[1].got)
      /\ Len(fetch[1].got) < fetch[1].max_retries)
       => fetch[1].pc = "get"
  /\ (/\ fetch[1].pc = "done"
      /\ fetch[1].got # <<>>
      /\ fetch[1].got[Len(fetch[1].got)] = 200
      /\ AllRateLimited(SubSeq(fetch[1].got, 1, Len(fetch[1].got) - 1))
      /\ fetch[1].ret.err \notin WriteErrors)
       => /\ Len(fetch[1].got) - 1 <= fetch[1].max_retries - 1
          /\ fetch[1].ret = FetchReturned(fetch[1].out_path)
          /\ fetch[1].written = {fetch[1].out_path}
          /\ DOMAIN dir = DOMAIN fetch[1].dir0 \cup {fetch[1].out_path}
          /\ dir[fetch[1].out_path] = Flatten(fetch[1].body)
          /\ \A n \in DOMAIN fetch[1].dir0 \ {fetch[1].out_path} : dir[n] = fetch[1].dir0[n]

\* C2 witness: with the default max_retries of 5, four 429 answers and then a
\* 200, the call has returned its file
C2_Witness ==
  /\ fetch[1].pc = "done"
  /\ fetch[1].max_retries = MAX_RETRIES_DEFAULT
  /\ fetch[1].got = <<429, 429, 429, 429, 200>>
  /\ fetch[1].ret = FetchReturned(fetch[1].out_path)
  /\ fetch[1].body # <<>>

\* C3: on a cache miss, a fetch that gets 429 on every attempt issues exactly
\* max_retries GET requests (5 by default), then raises the RuntimeError whose
\* message tells the user to open the image URL and save it in the browser;
\* it has opened no file and the directory is as it was.
C3_RateLimitedAfterMaxRetries ==
  /\ (~fetch[1].hit /\ AllRateLimited(fetch[1].got))
       => Len(fetch[1].got) <= fetch[1].max_retries
  /\ (fetch[1].pc = "done" /\ ~fetch[1].hit /\ AllRateLimited(fetch[1].got))
       => /\ Len(fetch[1].got) = fetch[1].max_retries
          /\ fetch[1].ret = FetchRaised("RuntimeError", MSG_RATE_LIMITED)
          /\ fetch[1].written = {}
          /\ dir = fetch[1].dir0

\* C3 witness: five 429 answers under the default max_retries, and the call
\* has failed
C3_Witness ==
  /\ fetch[1].pc = "done"
  /\ fetch[1].max_retries = MAX_RETRIES_DEFAULT
  /\ fetch[1].got = <<429, 429, 429, 429, 429>>
  /\ fetch[1].ret.err = "RuntimeError"

\* C4 (as stated): when a fetch fails while the body is written, after the
\* target file was opened, no file is left that find_cached returns for that
\* identity.
C4_FailedWriteLeavesNoCacheHit ==
  (/\ fetch[1].pc = "done"
   /\ fetch[1].written # {}
   /\ fetch[1].ret.err \in WriteErrors)
    => find_cached(dir, fetch[1].owner, fetch[1].repo) = {}

\* C5 (as stated): on a cache miss, when a GET is answered with a status that
\* is neither 2xx nor 429, the fetch has failed at once with an HTTP error:
\* no sleep and no request follow it, no file was opened, the directory is
\* as it was.
C5_OtherStatusFailsAtOnce ==
  (/\ ~fetch[1].hit
   /\ fetch[1].got # <<>>
   /\ fetch[1].got[Len(fetch[1].got)] \notin {0, 429}
   /\ ~(fetch[1].got[Len(fetch[1].got)] \in 200..299))
    => /\ fetch[1].pc = "done"
       /\ fetch[1].ret.err = "HTTPError"
       /\ Len(fetch[1].sleeps) = Len(fetch[1].got) - 1
       /\ fetch[1].written = {}
       /\ dir = fetch[1].dir0

\* 2^k
RECURSIVE Pow2(_)
Pow2(k) == IF k = 0 THEN 1 ELSE 2 * Pow2(k - 1)

\* C16: within one call the base backoff starts at 1 s and doubles after
\* every 429: the base of the k-th sleep, which follows the k-th consecutive
\* 429, is 2^(k-1) s.  There is one sleep per 429 answer and none otherwise,
\* and every request after the first follows a 429, hence exactly one sleep.
C16_BackoffDoubles ==
  /\ Len(fetch[1].sleeps) = Cardinality({ i \in DOMAIN fetch[1].got : fetch[1].got[i] = 429 })
  /\ \A k \in DOMAIN fetch[1].sleeps :
       /\ fetch[1].got[k] = 429
       /\ fetch[1].sleeps[k] = Pow2(k - 1)
  /\ \A i \in DOMAIN fetch[1].got : i > 1 => fetch[1].got[i - 1] = 429
  /\ fetch[1].sleeps # <<>> => fetch[1].sleeps[1] = INITIAL_BACKOFF
  /\ fetch[1].pc \in {"get", "open", "write"} => fetch[1].backoff = Pow2(Len(fetch[1].sleeps))

\* C16 witness: five 429 answers, and the bases slept were 1, 2, 4, 8, 16 s
C16_Witness ==
  /\ fetch[1].pc = "done"
  /\ Len(fetch[1].got) = MAX_RETRIES_DEFAULT
  /\ AllRateLimited(fetch[1].got)
  /\ fetch[1].sleeps = <<1, 2, 4, 8, 16>>

\* the text of the URL from its last "." on
UrlSuffix(url) == SubSeq(url, RFind(url, Len(url), "."), Len(url))

\* the extension by the precedence that C17 states
ExtensionByPrecedence(header, url) ==
  LET ctype == CtypeOf(header)
  IN IF guess_extension(ctype) # EMPTY THEN guess_extension(ctype)
     ELSE IF HasImageSuffix(url) THEN UrlSuffix(url)
     ELSE EXT_JPG

\* C17 (as stated): once a response has passed the status checks, the target
\* file name carries the extension mapped from the content type (what
\* follows ";" ignored) when the mapping knows the type; otherwise the URL's
\* own suffix when the URL ends in .png, .jpg, .jpeg, .webp or .gif;
\* otherwise .jpg.  A response of type image/png is stored as .png whatever
\* the URL is.
C17_ExtensionByPrecedence ==
  fetch[1].out_path # EMPTY
    => /\ fetch[1].out_path =
            SafeName(fetch[1].owner, fetch[1].repo,
                     ExtensionByPrecedence(fetch[1].header, fetch[1].url))
       /\ (fetch[1].header.present /\ fetch[1].header.value = CT_PNG)
            => EndsWith(fetch[1].out_path, EXT_PNG)

(***************************************************************************)
(* Claims about the cache directory over several calls (SpecCache).        *)
(***************************************************************************)
\* C11 (as stated): once a call has downloaded and written the cached file
\* of its identity, no later call, for that or for any other identity,
\* deletes that file or changes its content: during the call that follows,
\* the file is in the directory with the content it had when that call began.
C11_CachedFileNeverChanges ==
  (fetch[1].pc # "idle" /\ last.downloaded)
    => /\ last.path \in DOMAIN dir
       /\ dir[last.path] = fetch[1].dir0[last.path]

\* C14 (as stated): a call for an identity other than the one the previous
\* call downloaded for neither returns that call's file as a cache hit nor
\* opens it for writing.
C14_IdentitiesShareNoFile ==
  (/\ fetch[1].pc # "idle"
   /\ last.downloaded
   /\ Identity(last.owner, last.repo) # Identity(fetch[1].owner, fetch[1].repo))
    => /\ ~(fetch[1].hit /\ fetch[1].ret.path = last.path)
       /\ last.path \notin fetch[1].written

(***************************************************************************)
(* Claims about concurrent calls (SpecRace).                               *)
(***************************************************************************)
\* the files of directory d named after identity (o, r), whatever extension
FilesOf(d, o, r) ==
  { n \in DOMAIN d : StartsWith(n, Sanitize(o \o DASH \o r \o DASH \o OPENGRAPH)) }

\* C12 (as stated): in every state, whatever the interleaving of two calls
\* for one identity that both missed the cache, the directory holds at most
\* one file of that identity, and the two calls write the same target path
\* whatever content type each response carries.
C12_OneFilePerIdentity ==
  \A v, w \in Procs :
    /\ fetch[w].pc # "idle" =>
         Cardinality(FilesOf(dir, fetch[w].owner, fetch[w].repo)) <= 1
    /\ (/\ fetch[v].out_path # EMPTY
        /\ fetch[w].out_path # EMPTY
        /\ Identity(fetch[v].owner, fetch[v].repo) = Identity(fetch[w].owner, fetch[w].repo))
         => fetch[v].out_path = fetch[w].out_path

\* the complete bodies that a finished download can have left in a file
CompleteBodies ==
  { Flatten(b) : b \in RaceBodies } \cup UNION { { d[n] : n \in DOMAIN d } : d \in InitialDirs }

\* C13 (as stated): at the step where a call returns a file, the file holds
\* a complete body: the whole body of the call's own response when it
\* downloaded, and on a cache hit the whole body of some finished download,
\* never an empty or a half-written file, also while the other caller is
\* writing it.
C13_ReturnedFileIsComplete ==
  [][\A w \in Procs :
       (fetch[w].pc # "done" /\ fetch'[w].pc = "done" /\ fetch'[w].ret.err = NO_ERROR)
         => /\ fetch'[w].ret.path \in DOMAIN dir'
            /\ IF fetch'[w].hit
               THEN dir'[fetch'[w].ret.path] \in CompleteBodies
               ELSE dir'[fetch'[w].ret.path] = Flatten(fetch'[w].body)]_vars

(***************************************************************************)
(* Claims about the /save endpoint (SpecSave).                             *)
(***************************************************************************)
\* C19 (as stated): at the step where /save answers, the status is 429
\* exactly when download_with_retry raised the rate-limited RuntimeError of
\* lines 117-120, and every other failure (HTTP status, network error, I/O
\* error), whatever the image URL and the text of the cause, is answered 400.
C19_RateLimitedAloneIs429 ==
  [][(fetch[1].pc = "done" /\ fetch'[1].pc = "idle")
       => /\ last'.status = 429 <=> fetch[1].ret = FetchRaised("RuntimeError", MSG_RATE_LIMITED)
          /\ fetch[1].ret.err \notin {NO_ERROR, "RuntimeError"} => last'.status = 400
          /\ fetch[1].ret.err = NO_ERROR => last'.status = 200]_vars

(***************************************************************************)
(* Claims about termination (SpecLive).                                    *)
(***************************************************************************)
\* C18: given that every request is answered or fails, every call of
\* download_with_retry and every call of resolve_og comes to its end, with a
\* result or with an error; the first issues at most max_retries requests,
\* the second at most two, whatever the statuses of the answers.
C18_CallsTerminate ==
  /\ [](Len(fetch[1].got) <= fetch[1].max_retries)
  /\ [](Len(res_reqs) <= 2)
  /\ (fetch[1].pc # "idle") ~> (fetch[1].pc = "done" /\ fetch[1].ret # NoFetchReturn)
  /\ (res_pc # "idle") ~> (res_pc = "done" /\ res_ret # NoResolveReturn)

\* C18 witness: a call with the default max_retries has ended with an HTTP
\* error on its fifth request, after four 429 answers
C18_Witness ==
  /\ fetch[1].pc = "done"
  /\ fetch[1].max_retries = MAX_RETRIES_DEFAULT
  /\ fetch[1].got = <<429, 429, 429, 429, 503>>
  /\ fetch[1].ret.err = "HTTPError"

====
